---- MODULE Spec2Model ----
(***************************************************************************)
(* Model of the MeetSync relay server (Express): the Zoom OAuth token      *)
(* cache (accessToken, tokenExpiry), getZoomAccessToken, and the route     *)
(* handlers that call it or the Stripe SDK.                                *)
(*                                                                         *)
(* Node runs the handlers on one thread: a handler runs uninterrupted      *)
(* between two awaits of network I/O, so each action below is one such     *)
(* run-to-completion segment, and the segments of concurrent requests      *)
(* interleave freely.                                                      *)
(***************************************************************************)
EXTENDS Integers, FiniteSets, Sequences, TLC

\* ---------------------------------------------------------------- bounds

\* Number of requests that can be in progress at the same time.
NumSlots == 2

Slots == 1..NumSlots

\* ------------------------------------------------------ program constants

\* The safety margin subtracted from expires_in, in seconds.
SafetyMargin == 300

\* Date.now() counts milliseconds, expires_in counts seconds.
MsPerSecond == 1000

\* amount defaults to 149 when the request gives none.
DefaultAmount == 149

\* -------------------------------------------------------------- JS values

\* JavaScript numbers as tagged values, so that null, undefined and NaN are
\* values a variable can hold beside the numbers.
JsNum(n) == [t |-> "num", n |-> n]
JsNull == [t |-> "null", n |-> 0]
JsUndefined == [t |-> "undefined", n |-> 0]
JsNaN == [t |-> "nan", n |-> 0]

\* Strings: the two values that are not strings are written as these.
Null == "<null>"
Undefined == "<undefined>"

\* Truthiness of a string-or-null-or-undefined value.
TruthyStr(s) == s # Null /\ s # Undefined /\ s # ""

\* Truthiness of a number-or-null-or-undefined value.
TruthyNum(x) == x.t = "num" /\ x.n # 0

\* a < b for a number a and a JS value b that passed the truthiness test.
JsLess(a, b) == b.t = "num" /\ a < b.n

\* ------------------------------------------------------------- the inputs

\* Access tokens upstream can hand out.
Tokens == {"tokA", "tokB"}

\* The instants (ms) at which something happens.
Instants == {0, 1000, 3299000, 3300000, 3301000}

\* Error bodies ({message}) and statuses of a non-2xx upstream response.
UpstreamMessages == {"Invalid client"}
UpstreamStatuses == {401, 429}

\* The bodies of a 2xx token response: well formed, or with one of the two
\* fields missing.
OkBodies ==
    [access_token : Tokens, expires_in : {JsNum(3600), JsNum(300)}]
    \cup {[access_token |-> Undefined, expires_in |-> JsNum(3600)],
          [access_token |-> "tokA", expires_in |-> JsUndefined]}

\* What the Zoom token endpoint can answer to one POST. kind "transport": no
\* response at all (error.response is undefined).
TokenResponses ==
    {[kind |-> "ok", status |-> 200, access_token |-> b.access_token,
      expires_in |-> b.expires_in, message |-> Undefined] : b \in OkBodies}
    \cup
    [kind : {"http"}, status : UpstreamStatuses, access_token : {Undefined},
     expires_in : {JsUndefined}, message : UpstreamMessages]
    \cup
    [kind : {"transport"}, status : {0}, access_token : {Undefined},
     expires_in : {JsUndefined}, message : {Undefined}]

\* What the Zoom meetings endpoint can answer to one POST: 2xx, a non-2xx
\* whose body has a message or has none, or no response.
MeetingResponses ==
    [kind : {"ok"}, status : {201}, message : {Undefined}]
    \cup
    [kind : {"http"}, status : {400},
     message : {"Invalid access token", Undefined}]
    \cup
    [kind : {"transport"}, status : {0}, message : {Undefined}]

\* ------------------------------------------------------------ the messages

MissingCredentialsMessage == "Missing Zoom credentials. Set ZOOM_ACCOUNT_ID, ZOOM_CLIENT_ID, and ZOOM_CLIENT_SECRET environment variables."
GenericAuthMessage == "Failed to authenticate with Zoom"
GenericMeetingMessage == "Failed to create Zoom meeting"
TypeErrorMessage == "Cannot read properties of undefined (reading 'substring')"

\* ---------------------------------------------------------------- state

VARIABLES
    env,          \* which environment values are set (fixed at start-up)
    accessToken,  \* the cached token: Null, Undefined or a string
    tokenExpiry,  \* the cached expiry: a JS value (ms since the epoch)
    now,          \* Date.now()
    req,          \* per slot: the request in progress
    last,         \* what the latest handler segment did (history)
    hist          \* how earlier calls of getZoomAccessToken ended (history,
                  \* kept where the requests are served in turn)

vars == <<env, accessToken, tokenExpiry, now, req, last, hist>>

ZoomRoutes == {"test-token", "create-meeting"}

\* A slot with no request in it.
IdleReq ==
    [route |-> "none", pc |-> "idle",
     \* when this request called getZoomAccessToken (-1: it is not in it)
     callTime |-> -1,
     \* the token requests its call of getZoomAccessToken has sent so far
     posted |-> 0,
     \* the handler's local `token`
     token |-> Undefined]

\* No call of getZoomAccessToken has ended yet. ended: how the latest call
\* that is over ended (an outcome of NoEvent); before: the same, as it was
\* when the latest call started.
NoHistory == [ended |-> "none", before |-> "none"]

\* The record of a segment in which nothing happened yet.
NoEvent ==
    [step |-> "init", route |-> "none",
     \* when the segment's request called getZoomAccessToken
     callTime |-> -1,
     \* getZoomAccessToken in this segment: none, hit, config, sent (the
     \* POST went out), ok, malformed, http, transport
     outcome |-> "none",
     \* the upstream response the segment handled
     resp |-> [kind |-> "none"],
     \* <<accessToken, tokenExpiry>> as the segment found them, when it is a
     \* request's first segment or the segment of a failed exchange
     cacheBefore |-> <<Null, JsNull>>,
     \* the token a successful exchange's segment found in the cache and
     \* replaced, when another refresh had stored it since the segment's
     \* request made its call (Undefined: none had)
     replaced |-> Undefined,
     \* whether a segment in which getZoomAccessToken threw after an
     \* answer of the token endpoint left the cache other than it found it
     changed |-> FALSE,
     \* requests the segment sent to the token and to the meetings endpoint,
     \* and the Bearer value of the latter
     posts |-> 0, meetingPosts |-> 0, bearer |-> Undefined,
     \* what getZoomAccessToken returned or threw to the handler, and the
     \* error first raised inside its try block
     returned |-> Undefined, thrown |-> Undefined, raised |-> Undefined,
     \* the HTTP responses the segment sent, and the last one: its status,
     \* the kind of its body (envelope: {success, ...}; text; received:
     \* {received: true}) and the body's success and error fields
     responses |-> 0, status |-> 0, body |-> "none", success |-> FALSE,
     error |-> Undefined,
     \* a Stripe route's segment: the request body, what the SDK did, the
     \* unit_amount handed to Stripe (-1: none) and the webhook event handled
     input |-> [kind |-> "none"], sdk |-> "none", unitAmount |-> -1,
     handled |-> Undefined]

\* ----------------------------------------------------- getZoomAccessToken

\* Variant: the expiry comparison the wrong way round.
CacheValidReversed(tok, exp, t) ==
    TruthyStr(tok) /\ TruthyNum(exp) /\ exp.t = "num" /\ t > exp.n

\* Variant: a cached token is served whatever its expiry.
CacheValidTokenOnly(tok, exp, t) == TruthyStr(tok)

\* Variant: a cached token is not served while an exchange is in flight.
CacheValidUnlessRefreshing(tok, exp, t) ==
    /\ TruthyStr(tok) /\ TruthyNum(exp) /\ JsLess(t, exp)
    /\ \A q \in Slots : req[q].pc # "awaitToken"

\* Variant: the token still served at the very instant of its expiry.
CacheValidInclusive(tok, exp, t) ==
    TruthyStr(tok) /\ TruthyNum(exp) /\ exp.t = "num" /\ t <= exp.n

\* if (accessToken && tokenExpiry && Date.now() < tokenExpiry)
CacheValid(tok, exp, t) == TruthyStr(tok) /\ TruthyNum(exp) /\ JsLess(t, exp)

\* Variant: only the two values the log lines report are tested.
CredentialsPresentLogged(e) == e.accountId /\ e.clientId

\* !(!ZOOM_ACCOUNT_ID || !ZOOM_CLIENT_ID || !ZOOM_CLIENT_SECRET)
CredentialsPresent(e) == e.accountId /\ e.clientId /\ e.clientSecret

\* Variant: the margin added to the upstream lifetime.
ExpiryMarginAdded(t, expiresIn) ==
    IF expiresIn.t = "num"
    THEN JsNum(t + (expiresIn.n + SafetyMargin) * MsPerSecond)
    ELSE JsNaN

\* Variant: the upstream lifetime taken as it is, without the margin.
ExpiryNoMargin(t, expiresIn) ==
    IF expiresIn.t = "num"
    THEN JsNum(t + expiresIn.n * MsPerSecond)
    ELSE JsNaN

\* Date.now() + (response.data.expires_in - 300) * 1000
ExpiryFrom(t, expiresIn) ==
    IF expiresIn.t = "num"
    THEN JsNum(t + (expiresIn.n - SafetyMargin) * MsPerSecond)
    ELSE JsNaN

\* The error axios.post rejects with for the upstream answer r: its message
\* and error.response?.data?.message.
AxiosError(r) ==
    [message |-> IF r.kind = "transport" THEN "Network Error"
                 ELSE "Request failed with status code",
     data |-> r.message]

\* new Error(message): an error with no response property.
PlainError(message) == [message |-> message, data |-> Undefined]

\* Variant: the upstream error body's message is passed on to the caller.
RethrownWithBody(err) ==
    IF TruthyStr(err.data) THEN err.data ELSE GenericAuthMessage

\* catch (error) { ...; throw new Error('Failed to authenticate with Zoom') }:
\* the message of the error the caller gets for the error caught.
Rethrown(err) == GenericAuthMessage

\* Variant: a failed exchange invalidates the cache.
CacheClearedAfterFailure(tok, exp) == <<Null, JsNull>>

\* The cache <<accessToken, tokenExpiry>> after axios.post rejected (non-2xx
\* or no response): the catch block assigns neither.
CacheAfterFailure(tok, exp) == <<tok, exp>>

\* ------------------------------------------------------------ the handlers

\* Whether the step leaves a cache variable other than it found it.
CacheChanged ==
    accessToken' # accessToken \/ tokenExpiry' # tokenExpiry

\* A segment of the request with record r starts.
Begin(r, step) ==
    [NoEvent EXCEPT !.step = step, !.route = r.route,
                    !.callTime = r.callTime]

\* res.status(s).json({success, error}): the request is over.
Respond(e, s, ok, err) ==
    [req |-> IdleReq,
     ev |-> [e EXCEPT !.responses = @ + 1, !.status = s,
                      !.body = "envelope", !.success = ok, !.error = err]]

\* The message create-meeting's catch answers with:
\* error.response?.data?.message || 'Failed to create Zoom meeting'.
MeetingErrorMessage(err) ==
    IF TruthyStr(err.data) THEN err.data ELSE GenericMeetingMessage

\* The handler's code after `await getZoomAccessToken()` returned tok:
\* test-token answers, create-meeting posts the meeting with Bearer tok.
AfterToken(r, e, tok) ==
    LET e1 == [e EXCEPT !.returned = tok]
    IN  IF r.route = "test-token"
        THEN Respond(e1, 200, TRUE, Undefined)
        ELSE [req |-> [r EXCEPT !.pc = "awaitMeeting", !.callTime = -1,
                                !.posted = 0, !.token = tok],
              ev |-> [e1 EXCEPT !.meetingPosts = @ + 1, !.bearer = tok]]

\* Variant: create-meeting goes on to post the meeting without a token.
AfterTokenThrewGoesOn(r, e, msg) ==
    LET e1 == [e EXCEPT !.thrown = msg]
    IN  IF r.route = "test-token"
        THEN Respond(e1, 500, FALSE, msg)
        ELSE [req |-> [r EXCEPT !.pc = "awaitMeeting", !.callTime = -1,
                                !.posted = 0],
              ev |-> [e1 EXCEPT !.meetingPosts = @ + 1]]

\* Variant: the catch block logs the error and ends without answering.
AfterTokenThrewNoAnswer(r, e, msg) ==
    [req |-> IdleReq, ev |-> [e EXCEPT !.thrown = msg]]

\* The handler's catch block after getZoomAccessToken threw Error(msg).
AfterTokenThrew(r, e, msg) ==
    LET e1 == [e EXCEPT !.thrown = msg]
    IN  IF r.route = "test-token"
        THEN Respond(e1, 500, FALSE, msg)
        ELSE Respond(e1, 500, FALSE, MeetingErrorMessage(PlainError(msg)))

\* Variant: a call that finds an exchange in flight waits for an answer
\* without sending a request of its own.
CallTokenJoinsInFlight(r, e) ==
    IF CacheValid(accessToken, tokenExpiry, now)
    THEN AfterToken(r, [e EXCEPT !.outcome = "hit"], accessToken)
    ELSE IF ~CredentialsPresent(env)
    THEN AfterTokenThrew(r,
           [e EXCEPT !.outcome = "config",
                     !.raised = MissingCredentialsMessage],
           Rethrown(PlainError(MissingCredentialsMessage)))
    ELSE IF \E q \in Slots : req[q].pc = "awaitToken"
    THEN [req |-> [r EXCEPT !.pc = "awaitToken"],
          ev |-> [e EXCEPT !.outcome = "sent"]]
    ELSE [req |-> [r EXCEPT !.pc = "awaitToken", !.posted = @ + 1],
          ev |-> [e EXCEPT !.outcome = "sent", !.posts = @ + 1]]

\* Variant: a failed exchange is remembered, and the call after it throws
\* without sending a request.
CallTokenRemembersFailure(r, e) ==
    IF CacheValid(accessToken, tokenExpiry, now)
    THEN AfterToken(r, [e EXCEPT !.outcome = "hit"], accessToken)
    ELSE IF ~CredentialsPresent(env)
    THEN AfterTokenThrew(r,
           [e EXCEPT !.outcome = "config",
                     !.raised = MissingCredentialsMessage],
           Rethrown(PlainError(MissingCredentialsMessage)))
    ELSE IF hist.ended \in {"http", "transport"}
    THEN AfterTokenThrew(r, [e EXCEPT !.outcome = "transport"],
                         GenericAuthMessage)
    ELSE [req |-> [r EXCEPT !.pc = "awaitToken", !.posted = @ + 1],
          ev |-> [e EXCEPT !.outcome = "sent", !.posts = @ + 1]]

\* getZoomAccessToken up to its await, for the request r whose segment is e.
CallToken(r, e) ==
    IF CacheValid(accessToken, tokenExpiry, now)
    THEN AfterToken(r, [e EXCEPT !.outcome = "hit"], accessToken)
    ELSE IF ~CredentialsPresent(env)
    THEN AfterTokenThrew(r,
           [e EXCEPT !.outcome = "config",
                     !.raised = MissingCredentialsMessage],
           Rethrown(PlainError(MissingCredentialsMessage)))
    ELSE [req |-> [r EXCEPT !.pc = "awaitToken", !.posted = @ + 1],
          ev |-> [e EXCEPT !.outcome = "sent", !.posts = @ + 1]]

\* A request for a Zoom route arrives; the handler runs up to its first
\* network await (or to its response).
ZoomRequest(p, route) ==
    /\ req[p].pc = "idle"
    /\ LET r == [IdleReq EXCEPT !.route = route, !.callTime = now]
           go == CallToken(r, [Begin(r, "request") EXCEPT
                                 !.cacheBefore = <<accessToken, tokenExpiry>>])
       IN  /\ req' = [req EXCEPT ![p] = go.req]
           /\ last' = go.ev
    /\ UNCHANGED <<env, accessToken, tokenExpiry, now>>

\* The token another refresh has stored since a call made at time t read
\* the cache: the call went on to its exchange, so a cached token that the
\* check of line 266 would have served at t was not there yet.
StoredSince(t) ==
    IF CacheValid(accessToken, tokenExpiry, t) THEN accessToken ELSE Undefined

\* Variant: a response that finds a valid token in the cache leaves the
\* cache as it is.
TokenSuccessFirstWins(p, r) ==
    /\ req[p].pc = "awaitToken"
    /\ r.kind = "ok"
    /\ accessToken' = IF CacheValid(accessToken, tokenExpiry, now)
                      THEN accessToken ELSE r.access_token
    /\ tokenExpiry' = IF CacheValid(accessToken, tokenExpiry, now)
                      THEN tokenExpiry ELSE ExpiryFrom(now, r.expires_in)
    /\ LET e == [Begin(req[p], "tokenResponse") EXCEPT
                   !.resp = r, !.replaced = StoredSince(req[p].callTime)]
           go == IF r.access_token \in Tokens
                 THEN AfterToken(req[p], [e EXCEPT !.outcome = "ok"],
                                 r.access_token)
                 ELSE AfterTokenThrew(req[p],
                        [e EXCEPT !.outcome = "malformed",
                                  !.changed = CacheChanged,
                                  !.raised = TypeErrorMessage],
                        Rethrown(PlainError(TypeErrorMessage)))
       IN  /\ req' = [req EXCEPT ![p] = go.req]
           /\ last' = go.ev
    /\ UNCHANGED <<env, now>>

\* Variant: after writing the cache, the call returns the valid token it
\* found there when its response arrived, if there was one.
TokenSuccessReturnsFound(p, r) ==
    /\ req[p].pc = "awaitToken"
    /\ r.kind = "ok"
    /\ accessToken' = r.access_token
    /\ tokenExpiry' = ExpiryFrom(now, r.expires_in)
    /\ LET e == [Begin(req[p], "tokenResponse") EXCEPT
                   !.resp = r, !.replaced = StoredSince(req[p].callTime)]
           go == IF r.access_token \in Tokens
                 THEN AfterToken(req[p], [e EXCEPT !.outcome = "ok"],
                                 IF CacheValid(accessToken, tokenExpiry, now)
                                 THEN accessToken ELSE r.access_token)
                 ELSE AfterTokenThrew(req[p],
                        [e EXCEPT !.outcome = "malformed",
                                  !.changed = CacheChanged,
                                  !.raised = TypeErrorMessage],
                        Rethrown(PlainError(TypeErrorMessage)))
       IN  /\ req' = [req EXCEPT ![p] = go.req]
           /\ last' = go.ev
    /\ UNCHANGED <<env, now>>

\* Variant: a refresh replaces the token and keeps the old expiry.
TokenSuccessKeepsExpiry(p, r) ==
    /\ req[p].pc = "awaitToken"
    /\ r.kind = "ok"
    /\ accessToken' = r.access_token
    /\ tokenExpiry' = IF tokenExpiry.t = "num" THEN tokenExpiry
                      ELSE ExpiryFrom(now, r.expires_in)
    /\ LET e == [Begin(req[p], "tokenResponse") EXCEPT
                   !.resp = r, !.replaced = StoredSince(req[p].callTime)]
           go == IF r.access_token \in Tokens
                 THEN AfterToken(req[p], [e EXCEPT !.outcome = "ok"],
                                 r.access_token)
                 ELSE AfterTokenThrew(req[p],
                        [e EXCEPT !.outcome = "malformed",
                                  !.changed = CacheChanged,
                                  !.raised = TypeErrorMessage],
                        Rethrown(PlainError(TypeErrorMessage)))
       IN  /\ req' = [req EXCEPT ![p] = go.req]
           /\ last' = go.ev
    /\ UNCHANGED <<env, now>>

\* The token endpoint answered 2xx: the cache is written, then the token's
\* preview is logged (a TypeError when access_token is missing).
TokenSuccess(p, r) ==
    /\ req[p].pc = "awaitToken"
    /\ r.kind = "ok"
    /\ accessToken' = r.access_token
    /\ tokenExpiry' = ExpiryFrom(now, r.expires_in)
    /\ LET e == [Begin(req[p], "tokenResponse") EXCEPT
                   !.resp = r, !.replaced = StoredSince(req[p].callTime)]
           go == IF r.access_token \in Tokens
                 THEN AfterToken(req[p], [e EXCEPT !.outcome = "ok"],
                                 r.access_token)
                 ELSE AfterTokenThrew(req[p],
                        [e EXCEPT !.outcome = "malformed",
                                  !.changed = CacheChanged,
                                  !.raised = TypeErrorMessage],
                        Rethrown(PlainError(TypeErrorMessage)))
       IN  /\ req' = [req EXCEPT ![p] = go.req]
           /\ last' = go.ev
    /\ UNCHANGED <<env, now>>

\* Variant: the catch block sends the token request a second time before
\* it gives up.
TokenFailureRetries(p, r) ==
    /\ req[p].pc = "awaitToken"
    /\ r.kind \in {"http", "transport"}
    /\ accessToken' = CacheAfterFailure(accessToken, tokenExpiry)[1]
    /\ tokenExpiry' = CacheAfterFailure(accessToken, tokenExpiry)[2]
    /\ LET e == [Begin(req[p], "tokenResponse") EXCEPT !.resp = r]
           e1 == [e EXCEPT !.outcome = r.kind,
                           !.changed = CacheChanged,
                           !.cacheBefore = <<accessToken, tokenExpiry>>,
                           !.raised = AxiosError(r).message]
           go == IF req[p].posted < 2
                 THEN [req |-> [req[p] EXCEPT !.posted = @ + 1],
                       ev |-> [e1 EXCEPT !.posts = @ + 1]]
                 ELSE AfterTokenThrew(req[p], e1, Rethrown(AxiosError(r)))
       IN  /\ req' = [req EXCEPT ![p] = go.req]
           /\ last' = go.ev
    /\ UNCHANGED <<env, now>>

\* The token endpoint answered non-2xx, or the transport failed.
TokenFailure(p, r) ==
    /\ req[p].pc = "awaitToken"
    /\ r.kind \in {"http", "transport"}
    /\ accessToken' = CacheAfterFailure(accessToken, tokenExpiry)[1]
    /\ tokenExpiry' = CacheAfterFailure(accessToken, tokenExpiry)[2]
    /\ LET e == [Begin(req[p], "tokenResponse") EXCEPT !.resp = r]
           go == AfterTokenThrew(req[p],
                   [e EXCEPT !.outcome = r.kind,
                             !.cacheBefore = <<accessToken, tokenExpiry>>,
                             !.changed = CacheChanged,
                             !.raised = AxiosError(r).message],
                   Rethrown(AxiosError(r)))
       IN  /\ req' = [req EXCEPT ![p] = go.req]
           /\ last' = go.ev
    /\ UNCHANGED <<env, now>>

\* The meetings endpoint answered.
MeetingResponse(p, m) ==
    /\ req[p].pc = "awaitMeeting"
    /\ LET e == [Begin(req[p], "meetingResponse") EXCEPT !.resp = m]
           go == IF m.kind = "ok"
                 THEN Respond(e, 200, TRUE, Undefined)
                 ELSE Respond([e EXCEPT !.raised = AxiosError(m).message],
                              500, FALSE, MeetingErrorMessage(AxiosError(m)))
       IN  /\ req' = [req EXCEPT ![p] = go.req]
           /\ last' = go.ev
    /\ UNCHANGED <<env, accessToken, tokenExpiry, now>>

\* Time passes.
Tick(t) ==
    /\ t > now
    /\ now' = t
    /\ last' = [NoEvent EXCEPT !.step = "tick"]
    /\ UNCHANGED <<env, accessToken, tokenExpiry, req>>


\* ----------------------------------------------------- the Stripe routes
\* These handlers read and write no state of the process but the Stripe
\* client: what they do between their awaits commutes with every other
\* segment, so each is one action, from the request to its response.

StripeNotConfiguredCheckout == "Payment system not configured. Please contact support."
StripeNotConfiguredPortal == "Payment system not configured."
MissingProductMessage == "Missing product ID"
MissingEmailMessage == "Email not provided."
NoCustomerMessage == "No billing account found. If you recently subscribed, please try again in a few minutes."
GenericCheckoutMessage == "Failed to create checkout session"
StripeNullMessage == "Cannot read properties of null"
WebhookPrefix == "Webhook Error: "

\* What a call of the Stripe SDK can do: return, or throw an error with a
\* message or with an empty one.
SdkOutcomes ==
    [kind : {"ok"}, message : {Undefined}]
    \cup [kind : {"throws"}, message : {"No such product", ""}]

\* amount of a checkout request: missing, or a number of currency units.
Amounts == {JsUndefined, JsNum(0), JsNum(20), JsNum(149)}

CheckoutBodies ==
    [kind : {"checkout"}, productId : {"p1", Undefined}, amount : Amounts]

PortalBodies == [kind : {"portal"}, email : {"a@example.com", Undefined}]

\* stripe-webhook: whether the stripe-signature header is a valid signature
\* of the request's raw body, whether the Content-Type is application/json
\* (as Stripe sends it), and the event's type.
WebhookRequests ==
    [kind : {"webhook"}, signed : BOOLEAN, json : BOOLEAN,
     type : {"checkout.session.completed", "customer.subscription.created",
             "customer.subscription.deleted", "invoice.paid"}]

\* req.body as the webhook handler finds it. app.use(express.json()) runs
\* before every route: it parses an application/json body into an object and
\* marks the request as parsed, so the route's own express.raw() leaves it
\* alone; a body of another type matches neither parser and req.body is {}.
WebhookBody(w) == IF w.json THEN "parsed" ELSE "empty"

\* stripe.webhooks.constructEvent(req.body, sig, webhookSecret) returns the
\* event when the signature is valid for the raw body it is given, and throws
\* otherwise: the signature of a body that is no longer the raw bytes cannot
\* be checked.
ConstructEventAccepts(body, signed) == body = "raw" /\ signed

WelcomeBodies == [kind : {"welcome"}, sessionId : {"cs_1", Undefined}]

\* Math.round((amount || 149) * 100)
UnitAmount(amount) ==
    IF TruthyNum(amount) THEN amount.n * 100 ELSE DefaultAmount * 100

\* A Stripe route's segment starts.
BeginStripe(route, input) ==
    [NoEvent EXCEPT !.step = "stripe", !.route = route, !.input = input]

\* Variant: the catch block answers without setting the status.
StripeCatchNoStatus(route, message) ==
    [status |-> 200,
     error |-> IF route = "create-checkout-session" /\ ~TruthyStr(message)
               THEN GenericCheckoutMessage
               ELSE message]

\* catch (error) { res.status(500).json({success: false, error: ...}) } of
\* a Stripe route: the status and the message for the error caught.
StripeCatch(route, message) ==
    [status |-> 500,
     error |-> IF route = "create-checkout-session" /\ ~TruthyStr(message)
               THEN GenericCheckoutMessage
               ELSE message]

\* The outer catch of a Stripe route answers for an error with this message.
Caught(e, message) ==
    LET c == StripeCatch(e.route, message)
    IN  Respond([e EXCEPT !.raised = message], c.status, FALSE, c.error).ev

\* POST /api/create-checkout-session
CheckoutSession(b, sdk) ==
    /\ LET e == BeginStripe("create-checkout-session", b)
       IN  last' =
             IF ~env.stripeKey
             THEN Respond(e, 500, FALSE, StripeNotConfiguredCheckout).ev
             ELSE IF ~TruthyStr(b.productId)
             THEN Respond(e, 400, FALSE, MissingProductMessage).ev
             ELSE LET e1 == [e EXCEPT !.sdk = sdk.kind,
                                      !.unitAmount = UnitAmount(b.amount)]
                  IN  IF sdk.kind = "ok"
                      THEN Respond(e1, 200, TRUE, Undefined).ev
                      ELSE Caught(e1, sdk.message)
    /\ UNCHANGED <<env, accessToken, tokenExpiry, now, req>>

\* POST /api/create-portal-session: customers is the number of customers
\* the list call found, sdkList and sdkPortal what the two SDK calls did.
PortalSession(b, sdkList, customers, sdkPortal) ==
    /\ LET e == BeginStripe("create-portal-session", b)
       IN  last' =
             IF ~env.stripeKey
             THEN Respond(e, 500, FALSE, StripeNotConfiguredPortal).ev
             ELSE IF ~TruthyStr(b.email)
             THEN Respond(e, 400, FALSE, MissingEmailMessage).ev
             ELSE IF sdkList.kind # "ok"
             THEN Caught([e EXCEPT !.sdk = "throws"], sdkList.message)
             ELSE IF customers = 0
             THEN Respond([e EXCEPT !.sdk = "ok"], 404, FALSE,
                          NoCustomerMessage).ev
             ELSE IF sdkPortal.kind # "ok"
             THEN Caught([e EXCEPT !.sdk = "throws"], sdkPortal.message)
             ELSE Respond([e EXCEPT !.sdk = "ok"], 200, TRUE, Undefined).ev
    /\ UNCHANGED <<env, accessToken, tokenExpiry, now, req>>

\* res.status(400).send(`Webhook Error: ${err.message}`)
WebhookRefused(e, message) ==
    [e EXCEPT !.raised = message, !.responses = @ + 1, !.status = 400,
              !.body = "text", !.error = WebhookPrefix \o message]

\* POST /api/stripe-webhook: constructEvent throws when the signature does
\* not verify, and stripe.webhooks throws when stripe is null. An event that
\* verified goes through the switch on its type, which only logs.
StripeWebhook(w) ==
    /\ LET e == BeginStripe("stripe-webhook", w)
       IN  last' =
             IF ~env.stripeKey
             THEN WebhookRefused(e, StripeNullMessage)
             ELSE IF ~ConstructEventAccepts(WebhookBody(w), w.signed)
             THEN WebhookRefused([e EXCEPT !.sdk = "throws"],
                                 "No signatures found matching the expected signature")
             ELSE [e EXCEPT !.sdk = "ok", !.handled = w.type,
                            !.responses = @ + 1, !.status = 200,
                            !.body = "received"]
    /\ UNCHANGED <<env, accessToken, tokenExpiry, now, req>>

\* Variant: the failed session lookup reaches the outer catch, which
\* answers 500.
WelcomeEmailLookupEscapes(b, sdk) ==
    /\ LET e == BeginStripe("send-welcome-email", b)
       IN  last' =
             IF ~TruthyStr(b.sessionId)
             THEN Respond(e, 200, TRUE, Undefined).ev
             ELSE IF ~env.stripeKey
             THEN Caught(e, StripeNullMessage)
             ELSE IF sdk.kind # "ok"
             THEN Caught([e EXCEPT !.sdk = "throws"], sdk.message)
             ELSE Respond([e EXCEPT !.sdk = "ok"], 200, TRUE, Undefined).ev
    /\ UNCHANGED <<env, accessToken, tokenExpiry, now, req>>

\* POST /api/send-welcome-email: the session lookup is in a try of its own,
\* whose catch only logs.
WelcomeEmail(b, sdk) ==
    /\ LET e == BeginStripe("send-welcome-email", b)
       IN  last' =
             IF ~TruthyStr(b.sessionId)
             THEN Respond(e, 200, TRUE, Undefined).ev
             ELSE IF ~env.stripeKey
             THEN Respond([e EXCEPT !.raised = StripeNullMessage],
                          200, TRUE, Undefined).ev
             ELSE IF sdk.kind # "ok"
             THEN Respond([e EXCEPT !.sdk = "throws",
                                    !.raised = sdk.message],
                          200, TRUE, Undefined).ev
             ELSE Respond([e EXCEPT !.sdk = "ok"], 200, TRUE, Undefined).ev
    /\ UNCHANGED <<env, accessToken, tokenExpiry, now, req>>

\* ------------------------------------------------------- the specification

\* The environments of the Zoom routes: each credential set or not. The
\* Stripe key plays no part in them.
Environments ==
    [accountId : BOOLEAN, clientId : BOOLEAN, clientSecret : BOOLEAN,
     stripeKey : {FALSE}]

\* All environments: the Stripe key set or not as well.
AllEnvironments ==
    [accountId : BOOLEAN, clientId : BOOLEAN, clientSecret : BOOLEAN,
     stripeKey : BOOLEAN]

Init ==
    /\ env \in Environments
    /\ accessToken = Null
    /\ tokenExpiry = JsNull
    /\ now = 0
    /\ req = [p \in Slots |-> IdleReq]
    /\ last = NoEvent
    /\ hist = NoHistory

Next ==
    \/ \E p \in Slots, route \in ZoomRoutes :
          ZoomRequest(p, route) /\ UNCHANGED hist
    \/ \E p \in Slots, r \in TokenResponses :
          TokenSuccess(p, r) /\ UNCHANGED hist
    \/ \E p \in Slots, r \in TokenResponses :
          TokenFailure(p, r) /\ UNCHANGED hist
    \/ \E p \in Slots, m \in MeetingResponses :
          MeetingResponse(p, m) /\ UNCHANGED hist
    \/ \E t \in Instants : Tick(t) /\ UNCHANGED hist

Spec == Init /\ [][Next]_vars

\* The Stripe routes.
StripeNext ==
    \/ \E b \in CheckoutBodies, sdk \in SdkOutcomes :
          CheckoutSession(b, sdk) /\ UNCHANGED hist
    \/ \E b \in PortalBodies, l \in SdkOutcomes, n \in {0, 1},
          c \in SdkOutcomes : PortalSession(b, l, n, c) /\ UNCHANGED hist
    \/ \E w \in WebhookRequests : StripeWebhook(w) /\ UNCHANGED hist
    \/ \E b \in WelcomeBodies, sdk \in SdkOutcomes :
          WelcomeEmail(b, sdk) /\ UNCHANGED hist

InitRoutes ==
    /\ env \in AllEnvironments
    /\ accessToken = Null
    /\ tokenExpiry = JsNull
    /\ now = 0
    /\ req = [p \in Slots |-> IdleReq]
    /\ last = NoEvent
    /\ hist = NoHistory

\* The Zoom routes, served one request at a time (in slot 1).
ZoomNextInTurn ==
    \/ \E route \in ZoomRoutes : ZoomRequest(1, route) /\ UNCHANGED hist
    \/ \E r \in TokenResponses : TokenSuccess(1, r) /\ UNCHANGED hist
    \/ \E r \in TokenResponses : TokenFailure(1, r) /\ UNCHANGED hist
    \/ \E m \in MeetingResponses : MeetingResponse(1, m) /\ UNCHANGED hist
    \/ \E t \in Instants : Tick(t) /\ UNCHANGED hist

NextRoutes == ZoomNextInTurn \/ StripeNext

\* The whole server, every route, its requests served one after the other:
\* what a handler answers does not depend on the other requests in progress.
SpecRoutes == InitRoutes /\ [][NextRoutes]_vars

\* The history of the calls of getZoomAccessToken moves on with a segment:
\* a call that starts finds how the call before it ended, and a call ends
\* where it returns or throws.
Remember ==
    hist' = [before |-> IF last'.step = "request"
                        THEN hist.ended ELSE hist.before,
             ended |-> IF /\ last'.step \in {"request", "tokenResponse"}
                          /\ last'.outcome # "sent"
                       THEN last'.outcome ELSE hist.ended]

\* The Zoom routes, one request at a time, with the history of the calls.
NextInTurn ==
    \/ \E route \in ZoomRoutes : ZoomRequest(1, route) /\ Remember
    \/ \E r \in TokenResponses : TokenSuccess(1, r) /\ Remember
    \/ \E r \in TokenResponses : TokenFailure(1, r) /\ Remember
    \/ \E m \in MeetingResponses : MeetingResponse(1, m) /\ Remember
    \/ \E t \in Instants : Tick(t) /\ Remember

\* Calls of getZoomAccessToken one after the other: each call's behaviour
\* set against how the call before it ended.
SpecInTurn == Init /\ [][NextInTurn]_vars

\* Where the cached token comes from: when the exchange that stored it was
\* sent, when its response arrived, and the expires_in of that response.
NoOrigin == [sent |-> -1, arrived |-> -1, expiresIn |-> JsUndefined]

\* A 2xx response of the token endpoint writes the cache: it is the cached
\* values' origin from then on.
RememberOrigin ==
    hist' = IF last'.step = "tokenResponse" /\ last'.resp.kind = "ok"
            THEN [sent |-> last'.callTime, arrived |-> now,
                  expiresIn |-> last'.resp.expires_in]
            ELSE hist

\* Instants around the end of a token's upstream lifetime: an exchange sent
\* at 0 is answered at once, after a second, or after 301 seconds, and a
\* token with expires_in 3600 obtained at 0 ends upstream at 3600 seconds.
LifetimeInstants == {0, 1000, 301000, 3600000}

\* The answers of the token endpoint, and a 2xx one whose token lives less
\* than the margin.
LifetimeResponses ==
    TokenResponses
    \cup {[kind |-> "ok", status |-> 200, access_token |-> "tokB",
           expires_in |-> JsNum(60), message |-> Undefined]}

InitLifetime ==
    /\ env \in Environments
    /\ accessToken = Null
    /\ tokenExpiry = JsNull
    /\ now = 0
    /\ req = [p \in Slots |-> IdleReq]
    /\ last = NoEvent
    /\ hist = NoOrigin

\* Calls of getZoomAccessToken over those instants, made through
\* test-token (the route that does nothing else), with the origin of the
\* cached token.
NextLifetime ==
    \/ \E p \in Slots : ZoomRequest(p, "test-token") /\ RememberOrigin
    \/ \E p \in Slots, r \in LifetimeResponses :
          TokenSuccess(p, r) /\ RememberOrigin
    \/ \E p \in Slots, r \in LifetimeResponses :
          TokenFailure(p, r) /\ RememberOrigin
    \/ \E t \in LifetimeInstants : Tick(t) /\ RememberOrigin

SpecLifetime == InitLifetime /\ [][NextLifetime]_vars

\* Per slot, the answers still due: the requests that arrived in the slot
\* less the HTTP responses sent for them.
NoAnswersDue == [p \in Slots |-> 0]

\* A segment of the request in slot p: its arrival makes one answer due,
\* each response it sends makes one less.
CountAnswers(p) ==
    hist' = [hist EXCEPT ![p] = @ + (IF last'.step = "request" THEN 1 ELSE 0)
                                  - last'.responses]

InitAnswers ==
    /\ env \in Environments
    /\ accessToken = Null
    /\ tokenExpiry = JsNull
    /\ now = 0
    /\ req = [p \in Slots |-> IdleReq]
    /\ last = NoEvent
    /\ hist = NoAnswersDue

\* A request arrives in slot p.
Arrives(p) == \E route \in ZoomRoutes : ZoomRequest(p, route) /\ CountAnswers(p)

\* The token endpoint's answer to the request in slot p comes in, or the
\* exchange fails.
TokenCompletes(p) ==
    \E r \in TokenResponses :
       (TokenSuccess(p, r) \/ TokenFailure(p, r)) /\ CountAnswers(p)

\* The meetings endpoint's answer to the request in slot p comes in, or
\* the call fails.
MeetingCompletes(p) ==
    \E m \in MeetingResponses : MeetingResponse(p, m) /\ CountAnswers(p)

\* The requests and the upstream answers at one instant: the clock only
\* decides between the cached token and an exchange, and at one instant a
\* call already finds the cache empty, valid (expires_in 3600) or expired
\* (expires_in 300).
NextAnswers ==
    \/ \E p \in Slots : Arrives(p)
    \/ \E p \in Slots : TokenCompletes(p)
    \/ \E p \in Slots : MeetingCompletes(p)

\* The Zoom routes with the answers due counted, where every upstream call
\* a request has made completes in the end, with success or with failure.
SpecAnswers ==
    /\ InitAnswers
    /\ [][NextAnswers]_vars
    /\ \A p \in Slots : WF_vars(TokenCompletes(p))
    /\ \A p \in Slots : WF_vars(MeetingCompletes(p))

\* ------------------------------------------------------------- the claims

\* The cache holds a token that has not expired.
Fresh == accessToken \in Tokens /\ tokenExpiry.t = "num" /\ now < tokenExpiry.n

AllCredentials == env.accountId /\ env.clientId /\ env.clientSecret

\* C1: of the calls made one after the other in a validity window, the first,
\* made on the empty cache, sends the one POST to the token endpoint; a call
\* made while the token it stored has not expired sends none and returns the
\* cached value itself.
C1_OnlyFirstCallExchanges ==
    last.step = "request" =>
      /\ Fresh => /\ last.outcome = "hit"
                  /\ last.posts = 0
                  /\ last.returned = accessToken
      /\ (accessToken = Null /\ AllCredentials) =>
                  /\ last.outcome = "sent"
                  /\ last.posts = 1

\* A later call in the window was answered from the cache.
C1_Witness ==
    /\ last.step = "request"
    /\ last.outcome = "hit"
    /\ now = 3299000
    /\ last.returned = "tokA"
    /\ tokenExpiry = JsNum(3300000)

\* C2: a call made after the stored expiry has passed sends exactly one POST,
\* and when the exchange succeeds the cached token and the cached expiry are
\* both the values of that response.
C2_StaleCallRefreshesBoth ==
    /\ (/\ last.step = "request"
        /\ accessToken \in Tokens
        /\ tokenExpiry.t = "num"
        /\ now > tokenExpiry.n)
       => (last.outcome = "sent" /\ last.posts = 1)
    /\ last.step = "tokenResponse" => last.posts = 0
    /\ (/\ last.step = "tokenResponse"
        /\ last.outcome = "ok"
        /\ last.resp.expires_in.t = "num")
       => /\ accessToken = last.resp.access_token
          /\ tokenExpiry.t = "num"
          /\ tokenExpiry.n = now + (last.resp.expires_in.n - 300) * 1000

\* A call found an expired token and sent its POST.
C2_Witness ==
    /\ last.step = "request"
    /\ last.outcome = "sent"
    /\ accessToken \in Tokens
    /\ tokenExpiry.t = "num"
    /\ now > tokenExpiry.n

\* C3 as stated: the stored expiry is the time of the call plus (N - 300)
\* seconds, whatever time passes until the response arrives.
C3_ExpiryFromCallTime ==
    (/\ last.step = "tokenResponse"
     /\ last.outcome = "ok"
     /\ last.resp.expires_in.t = "num")
    => tokenExpiry = JsNum(last.callTime
                           + (last.resp.expires_in.n - 300) * 1000)

\* C3 amended: the stored expiry is the time at which the response is handled
\* plus (N - 300) seconds, never plus N seconds; it is the time of the call
\* plus (N - 300) seconds exactly when no time passed in between.
C3_ExpiryFromArrivalTime ==
    (/\ last.step = "tokenResponse"
     /\ last.outcome = "ok"
     /\ last.resp.expires_in.t = "num")
    => /\ tokenExpiry = JsNum(now + (last.resp.expires_in.n - 300) * 1000)
       /\ tokenExpiry # JsNum(now + last.resp.expires_in.n * 1000)
       /\ (tokenExpiry = JsNum(last.callTime
                               + (last.resp.expires_in.n - 300) * 1000))
          <=> (last.callTime = now)

\* A response arrived a second after its call and its token was stored.
C3_Witness ==
    /\ last.step = "tokenResponse"
    /\ last.outcome = "ok"
    /\ last.callTime = 0
    /\ now = 1000
    /\ last.resp.expires_in = JsNum(3600)
    /\ tokenExpiry = JsNum(3301000)

\* C4: a stored token is served exactly while now < expiry. After an exchange
\* at t=0 with expires_in=3600 the expiry is 3300 s; a call at 3299 s is a hit
\* that sends nothing, calls at 3300 s and at 3301 s each send a POST.
C4_ServedExactlyBeforeExpiry ==
    /\ (/\ last.step = "request"
        /\ accessToken \in Tokens
        /\ tokenExpiry.t = "num")
       => /\ (last.outcome = "hit") <=> (now < tokenExpiry.n)
          /\ (last.outcome = "hit") => last.posts = 0
          /\ (last.outcome # "hit") => last.posts = 1
    /\ (/\ last.step = "tokenResponse"
        /\ last.outcome = "ok"
        /\ now = 0
        /\ last.resp.expires_in = JsNum(3600))
       => tokenExpiry = JsNum(3300000)
    /\ (/\ last.step = "request"
        /\ accessToken \in Tokens
        /\ tokenExpiry = JsNum(3300000))
       => /\ now = 3299000 => (last.outcome = "hit" /\ last.posts = 0)
          /\ now \in {3300000, 3301000} =>
               (last.outcome = "sent" /\ last.posts = 1)

\* A call at the very instant of the expiry found the token absent.
C4_Witness ==
    /\ last.step = "request"
    /\ accessToken \in Tokens
    /\ tokenExpiry = JsNum(3300000)
    /\ now = 3300000
    /\ last.outcome = "sent"

\* C5: with one of the three credential values missing and no valid token
\* cached, the call fails and sends nothing to the token endpoint, and no
\* token exchange is ever in flight.
C5_MissingCredentialsNoRequest ==
    ~AllCredentials =>
      /\ \A p \in Slots : req[p].pc # "awaitToken"
      /\ last.posts = 0
      /\ (last.step = "request" /\ ~Fresh) =>
           /\ last.outcome = "config"
           /\ last.thrown # Undefined
           /\ last.returned = Undefined
           /\ last.status = 500
           /\ ~last.success

\* A call failed for the missing client secret alone.
C5_Witness ==
    /\ env.accountId /\ env.clientId /\ ~env.clientSecret
    /\ last.step = "request"
    /\ last.outcome = "config"
    /\ last.posts = 0

\* C6 as stated: the caller of a call that found a credential missing gets
\* the missing-credential error, not the generic one of a failed exchange.
C6_DescriptiveConfigError ==
    last.outcome = "config" =>
      /\ last.thrown = MissingCredentialsMessage
      /\ last.thrown # GenericAuthMessage

\* C7: a response that is a transport failure or a non-2xx leaves the cached
\* token and the cached expiry as they were.
C7_FailureLeavesCache ==
    (last.step = "tokenResponse" /\ last.outcome \in {"http", "transport"})
    => /\ accessToken = last.cacheBefore[1]
       /\ tokenExpiry = last.cacheBefore[2]

\* An exchange failed while a token, already expired, was in the cache, and
\* the token is still there.
C7_Witness ==
    /\ last.step = "tokenResponse"
    /\ last.outcome = "http"
    /\ accessToken = "tokA"
    /\ tokenExpiry = JsNum(3300000)
    /\ now = 3301000

\* C8: whatever the upstream status and error body, the caller of a call whose
\* exchange failed gets the one generic error: the response of test-token
\* carries it, that of create-meeting its own fixed message.
C8_GenericAuthError ==
    last.outcome \in {"http", "transport", "malformed"} =>
      /\ last.thrown = GenericAuthMessage
      /\ last.returned = Undefined
      /\ last.status = 500
      /\ ~last.success
      /\ last.route = "test-token" => last.error = GenericAuthMessage
      /\ last.route = "create-meeting" => last.error = GenericMeetingMessage

\* An exchange was refused with an error body, and test-token answered.
C8_Witness ==
    /\ last.outcome = "http"
    /\ last.resp.status = 429
    /\ last.resp.message = "Invalid client"
    /\ last.route = "test-token"
    /\ last.status = 500

\* C9: create-meeting posts a meeting only in a segment in which its call of
\* getZoomAccessToken returned, with exactly the returned value as Bearer; it
\* keeps the token in its local only, for the time of the request; when the
\* call throws it posts nothing and answers 500 with success false.
C9_MeetingUsesReturnedToken ==
    /\ last.meetingPosts > 0 =>
         /\ last.meetingPosts = 1
         /\ last.route = "create-meeting"
         /\ last.outcome \in {"hit", "ok"}
         /\ last.returned \in Tokens
         /\ last.bearer = last.returned
         /\ \E p \in Slots : /\ req[p].pc = "awaitMeeting"
                             /\ req[p].token = last.bearer
    /\ \A p \in Slots :
         /\ req[p].pc = "awaitMeeting" =>
              (req[p].route = "create-meeting" /\ req[p].token \in Tokens)
         /\ req[p].pc # "awaitMeeting" => req[p].token = Undefined
    /\ (last.route = "create-meeting" /\ last.step = "request") =>
         last.outcome \in {"hit", "config", "sent"}
    /\ (last.route = "create-meeting" /\ last.thrown # Undefined) =>
         /\ last.meetingPosts = 0
         /\ last.responses = 1
         /\ last.status = 500
         /\ ~last.success
         /\ \A p \in Slots : req[p].pc = "awaitMeeting" =>
              req[p].token \in Tokens

\* create-meeting got tokB from its own exchange, while tokA was in the cache
\* before, and posted the meeting with it.
C9_Witness ==
    /\ last.route = "create-meeting"
    /\ last.step = "tokenResponse"
    /\ last.outcome = "ok"
    /\ last.meetingPosts = 1
    /\ last.bearer = "tokB"
    /\ accessToken = "tokB"

\* An error was raised in the latest segment.
ErrorRaised == last.raised # Undefined \/ last.thrown # Undefined

\* C10 as stated: every error raised in a handler is answered with the
\* envelope {success: false, error} and HTTP 500, and the only other error
\* statuses are 400 for a webhook whose verification failed and 404 for a
\* billing customer not found.
C10_OnlyWebhook400AndCustomer404 ==
    last.responses > 0 =>
      /\ ErrorRaised =>
           \/ /\ last.status = 500
              /\ last.body = "envelope"
              /\ ~last.success
              /\ last.error # Undefined
           \/ (last.route = "stripe-webhook" /\ last.status = 400)
      /\ last.status # 200 =>
           \/ last.status = 500
           \/ (last.status = 400 /\ last.route = "stripe-webhook")
           \/ (last.status = 404 /\ last.route = "create-portal-session")

\* C10 amended: no error escapes a handler, every segment in which one is
\* raised ends with one response. The Zoom routes, create-checkout-session
\* and create-portal-session answer it with the envelope {success: false,
\* error} and HTTP 500; stripe-webhook answers 400 with a text body;
\* send-welcome-email swallows it and answers 200 with success true. The
\* other error statuses are 400 (no productId, no email) and 404 (no billing
\* customer), each with the envelope.
C10_ErrorsAnswered ==
    /\ last.responses <= 1
    /\ last.status \in {0, 200, 400, 404, 500}
    /\ last.responses = 1 <=> last.status # 0
    /\ ErrorRaised => last.responses = 1
    /\ (ErrorRaised /\ last.route \notin {"stripe-webhook",
                                         "send-welcome-email"}) =>
         last.status = 500
    /\ (ErrorRaised /\ last.route = "stripe-webhook") =>
         (last.status = 400 /\ last.body = "text")
    /\ (ErrorRaised /\ last.route = "send-welcome-email") =>
         (last.status = 200 /\ last.body = "envelope" /\ last.success)
    /\ last.status \in {400, 404, 500} =>
         \/ /\ last.body = "envelope"
            /\ ~last.success
            /\ last.error # Undefined
         \/ (last.route = "stripe-webhook" /\ last.status = 400)
    /\ last.status = 400 =>
         \/ (last.route = "stripe-webhook" /\ ErrorRaised)
         \/ /\ last.route = "create-checkout-session"
            /\ ~TruthyStr(last.input.productId)
            /\ last.error = MissingProductMessage
         \/ /\ last.route = "create-portal-session"
            /\ ~TruthyStr(last.input.email)
            /\ last.error = MissingEmailMessage
    /\ last.status = 404 =>
         /\ last.route = "create-portal-session"
         /\ last.error = NoCustomerMessage
         /\ ~ErrorRaised

\* The Stripe SDK threw an error without a message while a checkout session
\* was created, and the handler answered 500 with its own message.
C10_Witness ==
    /\ last.route = "create-checkout-session"
    /\ last.sdk = "throws"
    /\ last.raised = ""
    /\ last.status = 500
    /\ last.error = GenericCheckoutMessage

\* C11 as stated: a webhook request whose signature does not verify is
\* answered 400 with a body that starts "Webhook Error: " and no event is
\* handled; a request with a valid signature is answered 200 with
\* {received: true}, whatever the type of its event.
C11_WebhookVerification ==
    (last.route = "stripe-webhook" /\ env.stripeKey) =>
      /\ ~last.input.signed =>
           /\ last.status = 400
           /\ last.body = "text"
           /\ last.error = WebhookPrefix \o last.raised
           /\ last.handled = Undefined
      /\ last.input.signed =>
           /\ last.status = 200
           /\ last.body = "received"
           /\ last.handled = last.input.type

\* C12 as stated: whenever create-checkout-session reaches the SDK with an
\* integer amount in the request, the one line item's unit_amount is that
\* amount times 100 (149 gives 14900).
C12_UnitAmountIsAmountTimes100 ==
    ( /\ last.route = "create-checkout-session"
      /\ last.sdk # "none"
      /\ last.input.amount.t = "num" ) =>
        last.unitAmount = last.input.amount.n * 100

C14_CacheAbsentOrPaired ==
    \/ accessToken = Null /\ tokenExpiry = JsNull
    \/ accessToken \in Tokens /\ tokenExpiry.t = "num"

\* The calls of getZoomAccessToken waiting for the token endpoint.
Waiting == {p \in Slots : req[p].pc = "awaitToken"}

\* The token requests sent by the calls in the slots of S.
RECURSIVE Posted(_)
Posted(S) ==
    IF S = {} THEN 0
    ELSE LET p == CHOOSE q \in S : TRUE
         IN  req[p].posted + Posted(S \ {p})

\* The cache is absent or stale: no token, or one whose expiry has come.
AbsentOrStale ==
    \/ accessToken = Null /\ tokenExpiry = JsNull
    \/ accessToken \in Tokens /\ tokenExpiry.t = "num" /\ now >= tokenExpiry.n

\* C15: refreshes are not coalesced. With the credentials set, a call that
\* reads an absent or stale cache sends a token request of its own, whatever
\* exchanges are already in flight; so the calls waiting for the token
\* endpoint have each sent exactly one request, k requests for k callers.
C15_OneExchangePerCaller ==
    /\ \A p \in Waiting : req[p].posted = 1
    /\ Posted(Waiting) = Cardinality(Waiting)
    /\ (last.step = "request" /\ AllCredentials /\ AbsentOrStale) =>
         /\ last.outcome = "sent"
         /\ last.posts = 1

\* Every slot holds a call that read the absent cache before any exchange
\* completed, and the latest of them has just sent its own request.
C15_Witness ==
    /\ Waiting = Slots
    /\ NumSlots >= 2
    /\ accessToken = Null
    /\ last.step = "request"
    /\ last.posts = 1
    /\ Posted(Slots) = NumSlots

\* C16: the last writer wins. A successful response that arrives after
\* another refresh has already written the cache replaces both values: the
\* cache then holds this response's token and the expiry computed from it,
\* and nothing of what the earlier response wrote.
C16_LastWriterWins ==
    ( /\ last.step = "tokenResponse"
      /\ last.outcome = "ok"
      /\ last.replaced \in Tokens ) =>
        /\ accessToken = last.resp.access_token
        /\ tokenExpiry =
             IF last.resp.expires_in.t = "num"
             THEN JsNum(now + (last.resp.expires_in.n - 300) * 1000)
             ELSE JsNaN

\* Two refreshes were in flight together; the first stored tokA, the second
\* arrived later with tokB, and no exchange is left in flight.
C16_Witness ==
    /\ last.step = "tokenResponse"
    /\ last.outcome = "ok"
    /\ last.replaced = "tokA"
    /\ last.resp.access_token = "tokB"
    /\ accessToken = "tokB"
    /\ Waiting = {}

\* C17: a call that starts while the cached token is valid returns the
\* cached value in the segment in which it starts, sends no token request
\* and leaves both cache variables as they were, whatever other requests are
\* in progress.
C17_ValidCacheServedAtOnce ==
    ( /\ last.step = "request"
      /\ last.cacheBefore[1] \in Tokens
      /\ last.cacheBefore[2].t = "num"
      /\ last.callTime < last.cacheBefore[2].n ) =>
        /\ last.outcome = "hit"
        /\ last.returned = last.cacheBefore[1]
        /\ last.posts = 0
        /\ <<accessToken, tokenExpiry>> = last.cacheBefore
        /\ last.route = "test-token" =>
             last.responses = 1 /\ last.status = 200 /\ last.success
        /\ last.route = "create-meeting" =>
             last.meetingPosts = 1 /\ last.bearer = last.cacheBefore[1]

\* A call was served from the cache while another call's exchange was still
\* in flight.
C17_Witness ==
    /\ last.step = "request"
    /\ last.outcome = "hit"
    /\ last.returned \in Tokens
    /\ Waiting # {}

\* C18: one call of getZoomAccessToken sends at most one token request. No
\* segment sends more than one, the segment that handles the token
\* endpoint's answer sends none, and after a failed exchange the call throws
\* and its handler answers the request with 500 in that same segment, without
\* trying again and without going on to the meetings endpoint.
C18_AtMostOnePostNoRetry ==
    /\ \A p \in Slots : req[p].posted <= 1
    /\ last.posts <= 1
    /\ last.step \in {"tokenResponse", "meetingResponse"} => last.posts = 0
    /\ last.outcome \in {"http", "transport"} =>
         /\ last.thrown # Undefined
         /\ last.returned = Undefined
         /\ last.responses = 1
         /\ last.status = 500
         /\ last.meetingPosts = 0

\* An exchange failed and the request was answered, nothing sent again.
C18_Witness ==
    /\ last.step = "tokenResponse"
    /\ last.outcome \in {"http", "transport"}
    /\ last.posts = 0
    /\ last.responses = 1
    /\ last.thrown = GenericAuthMessage

\* The outcomes of a call of getZoomAccessToken that threw.
Failures == {"config", "http", "transport", "malformed"}

\* C19: a failed call is not remembered. The call that follows one that
\* threw, and that finds no valid token in the cache, tests the credentials
\* again: it throws again when one is missing, and sends a new token request
\* when all are set; and when that exchange succeeds the cache holds the
\* response's token and expiry and the call returns that token.
C19_FailureNotRemembered ==
    /\ ( /\ last.step = "request"
         /\ hist.before \in Failures
         /\ ~CacheValid(last.cacheBefore[1], last.cacheBefore[2],
                        last.callTime) ) =>
           IF AllCredentials
           THEN last.outcome = "sent" /\ last.posts = 1
           ELSE last.outcome = "config" /\ last.posts = 0
    /\ ( /\ last.step = "tokenResponse"
         /\ last.outcome = "ok"
         /\ hist.before \in Failures ) =>
           /\ accessToken = last.resp.access_token
           /\ last.returned = last.resp.access_token
           /\ last.resp.expires_in.t = "num" =>
                tokenExpiry =
                  JsNum(now + (last.resp.expires_in.n - 300) * 1000)

\* The call before failed at the token endpoint; this one sent a new request
\* and its exchange succeeded.
C19_Witness ==
    /\ hist.before \in {"http", "transport"}
    /\ last.step = "tokenResponse"
    /\ last.outcome = "ok"
    /\ last.returned = "tokA"
    /\ accessToken = "tokA"
    /\ tokenExpiry.t = "num"

\* C20: a call whose exchange succeeded returns the access_token of its own
\* response, also when another refresh wrote a different token to the cache
\* while the call was suspended; create-meeting then sends that same token
\* as its Bearer value.
C20_ReturnsOwnToken ==
    (last.step = "tokenResponse" /\ last.outcome = "ok") =>
      /\ last.returned = last.resp.access_token
      /\ (last.replaced \in Tokens /\ last.replaced # last.resp.access_token)
           => last.returned # last.replaced
      /\ last.route = "create-meeting" =>
           /\ last.bearer = last.resp.access_token
           /\ \E p \in Slots : /\ req[p].pc = "awaitMeeting"
                               /\ req[p].token = last.resp.access_token

\* While a call was suspended another refresh stored tokA; the call's own
\* response carried tokB, and tokB is what it returned.
C20_Witness ==
    /\ last.step = "tokenResponse"
    /\ last.outcome = "ok"
    /\ last.replaced = "tokA"
    /\ last.resp.access_token = "tokB"
    /\ last.returned = "tokB"

\* C21 as stated: the cache is well formed whatever upstream answered, 2xx
\* responses without access_token or expires_in included. A stored token is
\* a string upstream returned as access_token and its expiry is a defined
\* timestamp, and a call of getZoomAccessToken that threw has left both
\* cache variables as it found them.
C21_CacheWellFormed ==
    /\ accessToken # Null => accessToken \in Tokens /\ tokenExpiry.t = "num"
    /\ ( /\ last.step \in {"request", "tokenResponse"}
         /\ last.outcome \in Failures ) =>
           /\ ~last.changed
           /\ last.outcome # "malformed" =>
                <<accessToken, tokenExpiry>> = last.cacheBefore

\* C22: no token is served from the cache after its upstream lifetime. When
\* a call returns the cached value at time t, and the exchange that stored
\* it took at most 300 seconds from its request to its response, t is
\* earlier than the time that request was sent plus expires_in seconds.
C22_NeverServedPastLifetime ==
    ( /\ last.step = "request"
      /\ last.outcome = "hit"
      /\ hist.arrived - hist.sent <= SafetyMargin * MsPerSecond ) =>
        /\ hist.sent >= 0
        /\ hist.expiresIn.t = "num"
        /\ last.returned = accessToken
        /\ last.callTime < hist.sent + hist.expiresIn.n * MsPerSecond

\* An exchange sent at 0 was answered a second later, and its token was
\* served from the cache at 301 seconds.
C22_Witness ==
    /\ last.step = "request"
    /\ last.outcome = "hit"
    /\ hist.sent = 0
    /\ hist.arrived = 1000
    /\ hist.expiresIn = JsNum(3600)
    /\ last.callTime = 301000

\* C23: every request to test-token and create-meeting gets exactly one
\* HTTP response. No segment sends two; a request in progress has one answer
\* due and a slot without a request none, so no request ends unanswered or
\* answered twice; and a request in progress is answered in the end, given
\* that each upstream call it makes completes.
C23_ExactlyOneResponse ==
    /\ [](last.responses <= 1)
    /\ [](\A p \in Slots : hist[p] = IF req[p].pc = "idle" THEN 0 ELSE 1)
    /\ \A p \in Slots : (req[p].pc # "idle") ~> (req[p].pc = "idle")

\* A create-meeting request went through both upstream calls and was
\* answered, once.
C23_Witness ==
    /\ last.step = "meetingResponse"
    /\ last.route = "create-meeting"
    /\ last.responses = 1
    /\ \A p \in Slots : hist[p] = 0 /\ req[p].pc = "idle"

\* C24: a token that upstream hands out with expires_in <= 300 is never a
\* cache hit. The expiry stored with it is not later than the instant of
\* storing, the call whose exchange obtained it still returns it, and while
\* it is the cached token no call is served from the cache: every call
\* sends a new token request.
C24_ShortLivedNeverServed ==
    /\ ( /\ last.step = "tokenResponse"
         /\ last.outcome = "ok"
         /\ last.resp.expires_in.t = "num"
         /\ last.resp.expires_in.n <= SafetyMargin ) =>
           /\ accessToken = last.resp.access_token
           /\ last.returned = last.resp.access_token
           /\ tokenExpiry.t = "num"
           /\ tokenExpiry.n <= now
    /\ ( /\ last.step = "request"
         /\ hist.expiresIn.t = "num"
         /\ hist.expiresIn.n <= SafetyMargin ) =>
           /\ last.outcome = "sent"
           /\ last.posts = 1
           /\ last.returned = Undefined

\* A token with expires_in 300 was stored at 0; a call made a second later,
\* with that token in the cache, sent a new request.
C24_Witness ==
    /\ last.step = "request"
    /\ last.outcome = "sent"
    /\ hist.expiresIn = JsNum(300)
    /\ hist.arrived = 0
    /\ accessToken \in Tokens
    /\ tokenExpiry = JsNum(0)
    /\ last.callTime = 1000

====
